---- MODULE Spec2Model ----
(***************************************************************************)
(* Model of c_imgproc_fns.c: the pixel codec and the four image            *)
(* transforms imgproc_squash, imgproc_color_rot, imgproc_blur and          *)
(* imgproc_expand.  An Image is a record [width, height, data] whose data  *)
(* is a function from the linear indices 0 .. width*height-1 to 32-bit     *)
(* pixels.  Each transform is run one iteration of its pixel loop at a     *)
(* time.                                                                   *)
(***************************************************************************)
EXTENDS Integers, Sequences, FiniteSets, TLC

VARIABLES
  pc,          \* "idle" (no call yet), "running" (inside a transform), "done", "undefined"
  op,          \* the transform called: "none", "squash", "color_rot", "blur", "expand"
  input_img,   \* struct Image *input_img
  output_img,  \* struct Image *output_img
  xfac, yfac,  \* imgproc_squash's factors
  blur_dist,   \* imgproc_blur's radius
  i, j,        \* the loop variables of the running transform
  acc,         \* imgproc_blur's red, green, blue, total at the division of the last pixel
  reads,       \* the (row, col, index) of every source read of the last iteration
  writes,      \* how many times each output index has been stored to in this call
  src0,        \* the source image as it was when the transform was called
  orig,        \* the image the caller started from
  rots,        \* completed imgproc_color_rot calls of the caller's chain
  cursor,      \* SpecWorkers: the next iteration of each worker
  avg_in,      \* SpecCodec: the pixels handed to the averaging function
  avg_out      \* SpecCodec: the averaging function called and its result

vars == <<pc, op, input_img, output_img, xfac, yfac, blur_dist, i, j, acc,
          reads, writes, src0, orig, rots, cursor, avg_in, avg_out>>

----------------------------------------------------------------------------
(* Bounds of the model *)

MaxW == 4
MaxH == 4
MaxFac == 2
MaxBlur == 1
WorkW == 2
WorkH == 2
NumWorkers == 2

----------------------------------------------------------------------------
(* 32-bit unsigned arithmetic.  A uint32_t is its four bytes, most significant *)
(* first: <<bits 31-24, bits 23-16, bits 15-8, bits 7-0>>.                     *)

Zero32 == <<0, 0, 0, 0>>

\* the uint32_t holding a non-negative number below 2^31
WordOf(n) == <<(n \div 16777216) % 256, (n \div 65536) % 256, (n \div 256) % 256, n % 256>>

\* x << n on a uint32_t, n a multiple of 8: the bytes shifted out at the top are lost
Shl(x, n) == [b \in 1 .. 4 |-> IF b + (n \div 8) <= 4 THEN x[b + (n \div 8)] ELSE 0]

\* x >> n on a uint32_t, n a multiple of 8
Shr(x, n) == [b \in 1 .. 4 |-> IF b - (n \div 8) >= 1 THEN x[b - (n \div 8)] ELSE 0]

\* x & 0xFF, as a number
Low8(x) == x[4]

\* a | b on two bytes, bit by bit
RECURSIVE ByteOr(_, _)
ByteOr(a, b) ==
  IF a = 0 THEN b
  ELSE IF b = 0 THEN a
  ELSE (IF a % 2 = 1 \/ b % 2 = 1 THEN 1 ELSE 0) + 2 * ByteOr(a \div 2, b \div 2)

\* a | b on two uint32_t
BitOr(a, b) == [x \in 1 .. 4 |-> ByteOr(a[x], b[x])]

----------------------------------------------------------------------------
(* Pixel codec and image accessors *)

InBuffer(img, index) == index \in DOMAIN img.data

\* img->data[index]; an index outside the buffer makes the call undefined (see Commit),
\* and the value read there is then never used
Load(img, index) == IF InBuffer(img, index) THEN img.data[index] ELSE Zero32

rowIndex(index, width) == index \div width

columnIndex(index, width) == index % width

getPixel(img, row, col) == Load(img, row * img.width + col)

getAlpha(pixel) == Low8(pixel)

getBlue(pixel) == Low8(Shr(pixel, 8))

getGreen(pixel) == Low8(Shr(pixel, 16))

getRed(pixel) == Low8(Shr(pixel, 24))

createPixel(red, green, blue, alpha) ==
  BitOr(BitOr(BitOr(Shl(WordOf(red), 24), Shl(WordOf(green), 16)), Shl(WordOf(blue), 8)),
        WordOf(alpha))

\* createAveragePixel rounding each channel to nearest instead of truncating
createAveragePixelRounded(pixel_one, pixel_two) ==
  createPixel((getRed(pixel_one) + getRed(pixel_two) + 1) \div 2,
              (getGreen(pixel_one) + getGreen(pixel_two) + 1) \div 2,
              (getBlue(pixel_one) + getBlue(pixel_two) + 1) \div 2,
              (getAlpha(pixel_one) + getAlpha(pixel_two) + 1) \div 2)

createAveragePixel(pixel_one, pixel_two) ==
  LET avg_red   == ((getRed(pixel_one) + getRed(pixel_two))) \div 2
      avg_green == ((getGreen(pixel_one) + getGreen(pixel_two))) \div 2
      avg_blue  == ((getBlue(pixel_one) + getBlue(pixel_two))) \div 2
      avg_alpha == ((getAlpha(pixel_one) + getAlpha(pixel_two))) \div 2
  IN  createPixel(avg_red, avg_green, avg_blue, avg_alpha)

quadAveragePixel(pixel_one, pixel_two, pixel_three, pixel_four) ==
  LET avg_red   == ((getRed(pixel_one) + getRed(pixel_two)
                     + getRed(pixel_three) + getRed(pixel_four))) \div 4
      avg_green == ((getGreen(pixel_one) + getGreen(pixel_two)
                     + getGreen(pixel_three) + getGreen(pixel_four))) \div 4
      avg_blue  == ((getBlue(pixel_one) + getBlue(pixel_two)
                     + getBlue(pixel_three) + getBlue(pixel_four))) \div 4
      avg_alpha == ((getAlpha(pixel_one) + getAlpha(pixel_two)
                     + getAlpha(pixel_three) + getAlpha(pixel_four))) \div 4
  IN  createPixel(avg_red, avg_green, avg_blue, avg_alpha)

----------------------------------------------------------------------------
(* Images *)

\* A caller-allocated output image of the given dimensions; its pixels are stored to
\* before anything reads them.
NewImage(w, h) == [width |-> w, height |-> h, data |-> [p \in 0 .. w * h - 1 |-> Zero32]]

NoImage == [width |-> 0, height |-> 0, data |-> [p \in {} |-> Zero32]]

\* the pixel 0xRRGGBBAA
Rgba(r, g, b, a) == <<r, g, b, a>>

\* The colours of the plain input images
Palette == { Rgba(3, 255, 10, 128), Rgba(4, 254, 0, 255), Rgba(170, 187, 204, 221) }

\* <<background, other colour>> of the plain input images
Impulses == { <<Rgba(3, 255, 10, 128), Rgba(4, 254, 0, 255)>>,
              <<Rgba(4, 254, 0, 255), Rgba(170, 187, 204, 221)>>,
              <<Rgba(170, 187, 204, 221), Rgba(170, 187, 204, 221)>> }

\* A test pattern: the pixel at linear index p differs from its neighbours in every channel
PatternPixel(seed, p) ==
  Rgba((seed + 37 * p) % 256, (seed + 101 + 91 * p) % 256,
       (2 * seed + 7 + 3 * p) % 256, 255 - ((seed + 5 * p) % 256))

Seeds == {0, 3, 128, 250}

\* The input images of w by h pixels: a background colour with at most one pixel of
\* another colour, and the test patterns
ImagesOf(w, h) ==
  { [width |-> w, height |-> h,
     data |-> [p \in 0 .. w * h - 1 |-> IF p = p1 THEN c[2] ELSE c[1]]] :
      p1 \in 0 .. w * h - 1, c \in Impulses }
  \cup
  { [width |-> w, height |-> h,
     data |-> [p \in 0 .. w * h - 1 |-> PatternPixel(seed, p)]] : seed \in Seeds }

Images == UNION { ImagesOf(w, h) : w \in 1 .. MaxW, h \in 1 .. MaxH }

NoAcc == [row |-> 0, col |-> 0, red |-> 0, green |-> 0, blue |-> 0, total |-> 0]

Read(row, col, index) == [row |-> row, col |-> col, index |-> index]

----------------------------------------------------------------------------
(* One iteration of each transform's pixel loop: the output index it stores to, *)
(* the pixel it stores, the source reads it makes and (blur) its accumulators.   *)

\* The loop body of imgproc_squash with the two factors exchanged
SquashIterSwapped(in, out, xf, yf, ii, jj) ==
  LET index == (ii * xf) * in.width + jj * yf
  IN  [pos |-> ii * out.width + jj, pixel |-> Load(in, index),
       rd |-> {Read(ii * xf, jj * yf, index)}, acc |-> NoAcc]

\* imgproc_squash, loop body at (ii, jj)
SquashIter(in, out, xf, yf, ii, jj) ==
  LET out_w   == out.width
      src_row == ii * yf
      src_col == jj * xf
      index   == src_row * in.width + src_col
  IN  [pos |-> ii * out_w + jj, pixel |-> Load(in, index),
       rd |-> {Read(src_row, src_col, index)}, acc |-> NoAcc]

\* The loop body of imgproc_color_rot rotating the other way: red takes the old green
ColorRotIterBackwards(in, ii) ==
  LET my_pixel == Load(in, ii)
  IN  [pos |-> ii,
       pixel |-> createPixel(getGreen(my_pixel), getBlue(my_pixel),
                             getRed(my_pixel), getAlpha(my_pixel)),
       rd |-> {Read(rowIndex(ii, in.width), columnIndex(ii, in.width), ii)},
       acc |-> NoAcc]

\* The loop body of imgproc_color_rot exchanging red and blue instead of rotating
ColorRotIterExchange(in, ii) ==
  LET my_pixel == Load(in, ii)
  IN  [pos |-> ii,
       pixel |-> createPixel(getBlue(my_pixel), getGreen(my_pixel),
                             getRed(my_pixel), getAlpha(my_pixel)),
       rd |-> {Read(rowIndex(ii, in.width), columnIndex(ii, in.width), ii)},
       acc |-> NoAcc]

\* imgproc_color_rot, loop body at ii
ColorRotIter(in, ii) ==
  LET my_pixel == Load(in, ii)
  IN  [pos |-> ii,
       pixel |-> createPixel(getBlue(my_pixel), getRed(my_pixel),
                             getGreen(my_pixel), getAlpha(my_pixel)),
       rd |-> {Read(rowIndex(ii, in.width), columnIndex(ii, in.width), ii)},
       acc |-> NoAcc]

\* The window's bounds test letting the column one past the last through
InImageColPastEnd(currX, currY, rows, cols) ==
  currX >= 0 /\ currX < rows /\ currY >= 0 /\ currY <= cols

\* The window's bounds test without the lower bound on the column
InImageNoLowerCol(currX, currY, rows, cols) ==
  currX >= 0 /\ currX < rows /\ currY < cols

\* The window's bounds test letting the row one past the last through
InImageRowPastEnd(currX, currY, rows, cols) ==
  currX >= 0 /\ currX <= rows /\ currY >= 0 /\ currY < cols

\* the bounds test of imgproc_blur's window scan
InImage(currX, currY, rows, cols) ==
  currX >= 0 /\ currX < rows /\ currY >= 0 /\ currY < cols

\* imgproc_blur's two inner loops over k and l, from (k, l) on
RECURSIVE BlurScan(_, _, _, _, _, _, _)
BlurScan(in, ii, jj, dist, k, l, a) ==
  LET rows == in.height
      cols == in.width
  IN  IF k > dist THEN a
      ELSE IF l > dist THEN BlurScan(in, ii, jj, dist, k + 1, -dist, a)
      ELSE LET currX == ii + k
               currY == jj + l
           IN  IF InImage(currX, currY, rows, cols)
               THEN LET index == currX * cols + currY
                        pixel == Load(in, index)
                    IN  BlurScan(in, ii, jj, dist, k, l + 1,
                          [red   |-> a.red + Low8(Shr(pixel, 24)),
                           green |-> a.green + Low8(Shr(pixel, 16)),
                           blue  |-> a.blue + Low8(Shr(pixel, 8)),
                           total |-> a.total + 1,
                           rd    |-> a.rd \cup {Read(currX, currY, index)}])
               ELSE BlurScan(in, ii, jj, dist, k, l + 1, a)

\* The accumulators declared outside the pixel loops: each pixel starts from what
\* the pixel before left in them
BlurStartStale(prev) ==
  [red |-> prev.red, green |-> prev.green, blue |-> prev.blue, total |-> prev.total,
   rd |-> {}]

\* int red = 0, green = 0, blue = 0, total = 0 at the start of each pixel of
\* imgproc_blur; prev holds what the pixel before left in them
BlurStart(prev) == [red |-> 0, green |-> 0, blue |-> 0, total |-> 0, rd |-> {}]

\* imgproc_blur, loop body at (ii, jj); a zero total makes the division undefined
BlurIter(in, dist, ii, jj, prev) ==
  LET cols  == in.width
      a     == BlurScan(in, ii, jj, dist, -dist, -dist, BlurStart(prev))
      pos   == ii * cols + jj
      alpha == Low8(Load(in, pos))
      tot   == IF a.total = 0 THEN 1 ELSE a.total
      r     == a.red \div tot
      g     == a.green \div tot
      b     == a.blue \div tot
  IN  [pos |-> pos,
       pixel |-> BitOr(BitOr(BitOr(Shl(WordOf(r), 24), Shl(WordOf(g), 16)),
                             Shl(WordOf(b), 8)), WordOf(alpha)),
       rd |-> a.rd \cup {Read(ii, jj, pos)},
       acc |-> [row |-> ii, col |-> jj, red |-> a.red, green |-> a.green,
                blue |-> a.blue, total |-> a.total]]

\* int right_edge = col/2 + 1 >= input_img->width
RightEdge(in, col) == (col \div 2) + 1 >= in.width

\* The bottom edge tested against the width
BottomEdgeByWidth(in, row) == (row \div 2) + 1 >= in.width

\* int bottom_edge = row/2 + 1 >= input_img->height
BottomEdge(in, row) == (row \div 2) + 1 >= in.height

\* imgproc_expand, loop body at ii
ExpandIter(in, out, ii) ==
  LET row == rowIndex(ii, out.width)
      col == columnIndex(ii, out.width)
      right_edge  == RightEdge(in, col)
      bottom_edge == BottomEdge(in, row)
      r == row \div 2
      c == col \div 2
      At(rr, cc) == Read(rr, cc, rr * in.width + cc)
      pixel_original == getPixel(in, r, c)
      pixel_right    == getPixel(in, r, c + 1)
      pixel_below    == getPixel(in, r + 1, c)
      pixel_diagonal == getPixel(in, r + 1, c + 1)
      res(pixel, more) == [pos |-> ii, pixel |-> pixel,
                           rd |-> {At(r, c)} \cup more, acc |-> NoAcc]
  IN  IF row % 2 = 0 /\ col % 2 = 0 THEN res(pixel_original, {})
      ELSE IF col % 2 # 0 /\ row % 2 = 0 THEN
        IF right_edge THEN res(pixel_original, {})
        ELSE res(createAveragePixel(pixel_original, pixel_right), {At(r, c + 1)})
      ELSE IF row % 2 # 0 /\ col % 2 = 0 THEN
        IF bottom_edge THEN res(pixel_original, {})
        ELSE res(createAveragePixel(pixel_original, pixel_below), {At(r + 1, c)})
      ELSE IF ~right_edge /\ ~bottom_edge THEN
        res(quadAveragePixel(pixel_original, pixel_right, pixel_below, pixel_diagonal),
            {At(r, c + 1), At(r + 1, c), At(r + 1, c + 1)})
      ELSE IF ~right_edge THEN
        res(createAveragePixel(pixel_original, pixel_right), {At(r, c + 1)})
      ELSE IF ~bottom_edge THEN
        res(createAveragePixel(pixel_original, pixel_below), {At(r + 1, c)})
      ELSE res(pixel_original, {})

\* The n-th iteration, in the loops' order, of the transform called name
Iter(name, in, out, xf, yf, dist, n, prev) ==
  CASE name = "squash"    -> SquashIter(in, out, xf, yf, n \div out.width, n % out.width)
    [] name = "color_rot" -> ColorRotIter(in, n)
    [] name = "blur"      -> BlurIter(in, dist, n \div in.width, n % in.width, prev)
    [] name = "expand"    -> ExpandIter(in, out, n)

\* The number of iterations of the transform called name
Iterations(name, in, out) ==
  IF name \in {"squash", "expand"} THEN out.width * out.height
  ELSE in.width * in.height

----------------------------------------------------------------------------
(* The sequential program *)

InitWith(images) ==
  /\ pc = "idle"
  /\ op = "none"
  /\ input_img \in images
  /\ output_img = NoImage
  /\ xfac = 1
  /\ yfac = 1
  /\ blur_dist = 0
  /\ i = 0
  /\ j = 0
  /\ acc = NoAcc
  /\ reads = {}
  /\ writes = [p \in {} |-> 0]
  /\ src0 = input_img
  /\ orig = input_img
  /\ rots = 0
  /\ cursor = [w \in 0 .. NumWorkers - 1 |-> w]
  /\ avg_in = <<>>
  /\ avg_out = [fn |-> "none", pixel |-> Zero32]

Init == InitWith(Images)

\* Entry into a transform with a caller-allocated output image of w by h pixels
Enter(name, w, h) ==
  /\ pc = "idle"
  /\ pc' = "running"
  /\ op' = name
  /\ output_img' = NewImage(w, h)
  /\ writes' = [p \in 0 .. w * h - 1 |-> 0]
  /\ i' = 0
  /\ j' = 0
  /\ cursor' = [v \in 0 .. NumWorkers - 1 |-> v]
  /\ UNCHANGED <<input_img, acc, reads, src0, orig, rots, avg_in, avg_out>>

\* imgproc_squash(input_img, output_img, xf, yf), the output sized so that every
\* sampled coordinate is inside the source
Call_squash ==
  \E xf \in 1 .. MaxFac, yf \in 1 .. MaxFac :
    \E w \in 1 .. input_img.width, h \in 1 .. input_img.height :
      /\ w * xf <= input_img.width
      /\ h * yf <= input_img.height
      /\ Enter("squash", w, h)
      /\ xfac' = xf
      /\ yfac' = yf
      /\ UNCHANGED blur_dist

\* imgproc_color_rot(input_img, output_img), the output of the source's dimensions
Call_color_rot ==
  /\ Enter("color_rot", input_img.width, input_img.height)
  /\ UNCHANGED <<xfac, yfac, blur_dist>>

\* imgproc_blur(input_img, output_img, dist), the output of the source's dimensions
Call_blur ==
  \E dist \in 0 .. MaxBlur :
    /\ Enter("blur", input_img.width, input_img.height)
    /\ blur_dist' = dist
    /\ UNCHANGED <<xfac, yfac>>

\* imgproc_expand(input_img, output_img), the output twice as wide and twice as high
Call_expand ==
  /\ Enter("expand", 2 * input_img.width, 2 * input_img.height)
  /\ UNCHANGED <<xfac, yfac, blur_dist>>

\* The store output_img->data[pos] = pixel that ends an iteration.  A load or a store
\* outside its buffer, or a division by a zero total, leaves the call undefined.
Defined(it) ==
  /\ \A rd \in it.rd : InBuffer(input_img, rd.index)
  /\ InBuffer(output_img, it.pos)
  /\ (op = "blur" => it.acc.total # 0)

Commit(it, last) ==
  /\ reads' = it.rd
  /\ acc' = it.acc
  /\ IF Defined(it)
     THEN /\ output_img' = [output_img EXCEPT !.data[it.pos] = it.pixel]
          /\ writes' = [writes EXCEPT ![it.pos] = @ + 1]
          /\ pc' = IF last THEN "done" ELSE "running"
     ELSE /\ pc' = "undefined"
          /\ UNCHANGED <<output_img, writes>>
  /\ UNCHANGED <<op, input_img, xfac, yfac, blur_dist, src0, orig, rots, avg_in, avg_out>>

\* for (i ...) for (j ...): the loop variables after the body at (i, j), w columns
NextJ(w) == IF j + 1 < w THEN j + 1 ELSE 0

NextI(w) == IF j + 1 < w THEN i ELSE i + 1

Step_squash ==
  /\ pc = "running" /\ op = "squash"
  /\ Commit(SquashIter(input_img, output_img, xfac, yfac, i, j),
            NextI(output_img.width) >= output_img.height)
  /\ i' = NextI(output_img.width)
  /\ j' = NextJ(output_img.width)
  /\ UNCHANGED cursor

Step_color_rot ==
  /\ pc = "running" /\ op = "color_rot"
  /\ Commit(ColorRotIter(input_img, i), i + 1 >= input_img.width * input_img.height)
  /\ i' = i + 1
  /\ UNCHANGED <<j, cursor>>

Step_blur ==
  /\ pc = "running" /\ op = "blur"
  /\ Commit(BlurIter(input_img, blur_dist, i, j, acc),
            NextI(input_img.width) >= input_img.height)
  /\ i' = NextI(input_img.width)
  /\ j' = NextJ(input_img.width)
  /\ UNCHANGED cursor

Step_expand ==
  /\ pc = "running" /\ op = "expand"
  /\ Commit(ExpandIter(input_img, output_img, i),
            i + 1 >= output_img.width * output_img.height)
  /\ i' = i + 1
  /\ UNCHANGED <<j, cursor>>

\* The caller hands the output of imgproc_color_rot to imgproc_color_rot again
Reapply_color_rot ==
  /\ pc = "done" /\ op = "color_rot" /\ rots < 2
  /\ pc' = "running"
  /\ input_img' = output_img
  /\ src0' = output_img
  /\ output_img' = NewImage(output_img.width, output_img.height)
  /\ writes' = [p \in DOMAIN output_img.data |-> 0]
  /\ rots' = rots + 1
  /\ i' = 0
  /\ j' = 0
  /\ UNCHANGED <<op, xfac, yfac, blur_dist, acc, reads, orig, cursor, avg_in, avg_out>>

Next ==
  \/ Call_squash
  \/ Call_color_rot
  \/ Call_blur
  \/ Call_expand
  \/ Step_squash
  \/ Step_color_rot
  \/ Step_blur
  \/ Step_expand
  \/ Reapply_color_rot

Spec == Init /\ [][Next]_vars

----------------------------------------------------------------------------
(* The pixel loops split among independent workers: worker w runs the iterations *)
(* w, w + NumWorkers, ... of the called transform, the workers interleaved in    *)
(* any order.                                                                    *)

\* Input images for the workers: the test patterns
WorkerImages ==
  { [width |-> w, height |-> h,
     data |-> [p \in 0 .. w * h - 1 |-> PatternPixel(seed, p)]] :
      w \in 1 .. WorkW, h \in 1 .. WorkH, seed \in Seeds }

InitWorkers == InitWith(WorkerImages)

WorkerStep(w) ==
  LET total == Iterations(op, input_img, output_img)
  IN  /\ pc = "running"
      /\ cursor[w] < total
      /\ cursor' = [cursor EXCEPT ![w] = @ + NumWorkers]
      /\ Commit(Iter(op, input_img, output_img, xfac, yfac, blur_dist, cursor[w], acc),
                \A v \in DOMAIN cursor : cursor'[v] >= total)
      /\ UNCHANGED <<i, j>>

NextWorkers ==
  \/ Call_squash
  \/ Call_color_rot
  \/ Call_blur
  \/ Call_expand
  \/ \E w \in 0 .. NumWorkers - 1 : WorkerStep(w)

SpecWorkers == InitWorkers /\ [][NextWorkers]_vars

----------------------------------------------------------------------------
(* The averaging functions of the pixel codec, called on their own *)

CodecPixels == Palette \cup { Rgba(0, 0, 0, 0), Rgba(255, 255, 255, 255) }

InitCodec ==
  /\ pc = "codec"
  /\ op = "none"
  /\ input_img = NoImage
  /\ output_img = NoImage
  /\ xfac = 1
  /\ yfac = 1
  /\ blur_dist = 0
  /\ i = 0
  /\ j = 0
  /\ acc = NoAcc
  /\ reads = {}
  /\ writes = [p \in {} |-> 0]
  /\ src0 = NoImage
  /\ orig = NoImage
  /\ rots = 0
  /\ cursor = [w \in 0 .. NumWorkers - 1 |-> w]
  /\ avg_in \in [1 .. 4 -> CodecPixels]
  /\ avg_out = [fn |-> "none", pixel |-> Zero32]

Call_createAveragePixel ==
  /\ pc = "codec" /\ avg_out.fn = "none"
  /\ avg_out' = [fn |-> "createAveragePixel",
                 pixel |-> createAveragePixel(avg_in[1], avg_in[2])]
  /\ UNCHANGED <<pc, op, input_img, output_img, xfac, yfac, blur_dist, i, j, acc,
                 reads, writes, src0, orig, rots, cursor, avg_in>>

Call_quadAveragePixel ==
  /\ pc = "codec" /\ avg_out.fn = "none"
  /\ avg_out' = [fn |-> "quadAveragePixel",
                 pixel |-> quadAveragePixel(avg_in[1], avg_in[2], avg_in[3], avg_in[4])]
  /\ UNCHANGED <<pc, op, input_img, output_img, xfac, yfac, blur_dist, i, j, acc,
                 reads, writes, src0, orig, rots, cursor, avg_in>>

NextCodec ==
  \/ Call_createAveragePixel
  \/ Call_quadAveragePixel

SpecCodec == InitCodec /\ [][NextCodec]_vars

----------------------------------------------------------------------------
(* What the transforms are to compute, stated on the row-major images *)

Done(name) == pc = "done" /\ op = name

\* the transform called name has stored to output index p
Stored(name, p) == op = name /\ p \in DOMAIN writes /\ writes[p] > 0

AllStored == \A p \in DOMAIN output_img.data : p \in DOMAIN writes /\ writes[p] > 0

SrcAt(r, c) == src0.data[r * src0.width + c]

OutAt(r, c) == output_img.data[r * output_img.width + c]

RECURSIVE ChannelSum(_, _)
ChannelSum(ps, ch) == IF ps = <<>> THEN 0 ELSE Head(ps)[ch] + ChannelSum(Tail(ps), ch)

\* the per-channel truncated mean of a sequence of pixels
Mean(ps) == [ch \in 1 .. 4 |-> ChannelSum(ps, ch) \div Len(ps)]

Min(a, b) == IF a < b THEN a ELSE b

Max(a, b) == IF a > b THEN a ELSE b

ExpandExpected(row, col) ==
  LET r == row \div 2
      c == col \div 2
      right_edge  == c + 1 >= src0.width
      bottom_edge == r + 1 >= src0.height
  IN  CASE row % 2 = 0 /\ col % 2 = 0 -> SrcAt(r, c)
        [] row % 2 = 0 /\ col % 2 = 1 ->
             IF right_edge THEN SrcAt(r, c) ELSE Mean(<<SrcAt(r, c), SrcAt(r, c + 1)>>)
        [] row % 2 = 1 /\ col % 2 = 0 ->
             IF bottom_edge THEN SrcAt(r, c) ELSE Mean(<<SrcAt(r, c), SrcAt(r + 1, c)>>)
        [] row % 2 = 1 /\ col % 2 = 1 ->
             IF ~right_edge /\ ~bottom_edge
             THEN Mean(<<SrcAt(r, c), SrcAt(r, c + 1), SrcAt(r + 1, c), SrcAt(r + 1, c + 1)>>)
             ELSE IF right_edge /\ ~bottom_edge THEN Mean(<<SrcAt(r, c), SrcAt(r + 1, c)>>)
             ELSE IF bottom_edge /\ ~right_edge THEN Mean(<<SrcAt(r, c), SrcAt(r, c + 1)>>)
             ELSE SrcAt(r, c)

\* C1: after imgproc_expand of an n-row, m-column source into a 2n by 2m destination,
\* every output pixel (row, col) is the source pixel at (row/2, col/2) when both are
\* even, and otherwise the truncated mean, alpha included, of that pixel and those of
\* its right, lower and diagonal neighbours the parity of (row, col) selects and the
\* image holds; a pixel, once stored, already has that value.
C1_ExpandPixels ==
  /\ \A row \in 0 .. output_img.height - 1, col \in 0 .. output_img.width - 1 :
       Stored("expand", row * output_img.width + col)
         => OutAt(row, col) = ExpandExpected(row, col)
  /\ Done("expand") =>
       /\ output_img.width = 2 * src0.width
       /\ output_img.height = 2 * src0.height
       /\ AllStored

C1_Witness ==
  /\ Done("expand")
  /\ src0.width >= 3 /\ src0.height >= 3
  /\ OutAt(1, 1) = Mean(<<SrcAt(0, 0), SrcAt(0, 1), SrcAt(1, 0), SrcAt(1, 1)>>)
  /\ OutAt(1, 1) \notin {SrcAt(0, 0), SrcAt(0, 1), SrcAt(1, 0), SrcAt(1, 1)}
  /\ OutAt(1, 2 * src0.width - 1) = Mean(<<SrcAt(0, src0.width - 1), SrcAt(1, src0.width - 1)>>)
  /\ OutAt(1, 2 * src0.width - 1) # SrcAt(0, src0.width - 1)

\* the in-bounds coordinates of the blur window of (row, col)
Window(row, col) ==
  { rc \in (row - blur_dist .. row + blur_dist) \X (col - blur_dist .. col + blur_dist) :
      rc[1] >= 0 /\ rc[1] < src0.height /\ rc[2] >= 0 /\ rc[2] < src0.width }

RECURSIVE WindowSum(_, _)
WindowSum(S, ch) ==
  IF S = {} THEN 0
  ELSE LET rc == CHOOSE x \in S : TRUE
       IN  SrcAt(rc[1], rc[2])[ch] + WindowSum(S \ {rc}, ch)

BlurExpected(row, col) ==
  LET W == Window(row, col)
  IN  <<WindowSum(W, 1) \div Cardinality(W), WindowSum(W, 2) \div Cardinality(W),
        WindowSum(W, 3) \div Cardinality(W), SrcAt(row, col)[4]>>

\* C2: after imgproc_blur every output pixel's red, green and blue are the truncated
\* quotient of that channel's sum over the in-bounds coordinates of its window by their
\* number, and its alpha is the alpha of the source pixel at the same place.
C2_BlurPixels ==
  /\ \A row \in 0 .. output_img.height - 1, col \in 0 .. output_img.width - 1 :
       Stored("blur", row * output_img.width + col)
         => OutAt(row, col) = BlurExpected(row, col)
  /\ Done("blur") => AllStored

C2_Witness ==
  /\ Done("blur")
  /\ blur_dist >= 1
  /\ src0.width >= 3 /\ src0.height >= 3
  /\ Cardinality(Window(1, 1)) = 9
  /\ Cardinality(Window(0, 0)) = 4
  /\ OutAt(1, 1) # SrcAt(1, 1)
  /\ OutAt(1, 1)[4] = SrcAt(1, 1)[4]
  /\ SrcAt(1, 1)[4] # SrcAt(0, 0)[4]

\* C3: after imgproc_squash with positive factors and a destination that keeps every
\* sampled coordinate inside the source, the destination pixel at (i, j) is the source
\* pixel at (i*yfac, j*xfac); with both factors 1 and a destination of the source's size
\* the destination is a copy of the source.
C3_SquashPixels ==
  /\ \A ii \in 0 .. output_img.height - 1, jj \in 0 .. output_img.width - 1 :
       Stored("squash", ii * output_img.width + jj)
         => OutAt(ii, jj) = SrcAt(ii * yfac, jj * xfac)
  /\ Done("squash") => AllStored
  /\ ( /\ Done("squash") /\ xfac = 1 /\ yfac = 1
       /\ output_img.width = src0.width /\ output_img.height = src0.height )
       => output_img = src0

C3_Witness ==
  /\ Done("squash")
  /\ xfac = 2 /\ yfac = 2
  /\ src0.width = 4 /\ src0.height = 4
  /\ output_img.width = 2 /\ output_img.height = 2
  /\ OutAt(0, 0) = SrcAt(0, 0)
  /\ OutAt(1, 1) = SrcAt(2, 2)
  /\ SrcAt(2, 2) \notin {SrcAt(1, 1), SrcAt(0, 0), SrcAt(2, 1), SrcAt(1, 2)}

\* C4: after imgproc_color_rot the output pixel at every index has the source pixel's
\* blue as its red, the source's red as its green, the source's green as its blue and
\* the source's alpha (0xAABBCCDD becomes 0xCCAABBDD).
C4_ColorRotPixels ==
  /\ \A p \in DOMAIN output_img.data :
       Stored("color_rot", p)
         => output_img.data[p] =
              <<src0.data[p][3], src0.data[p][1], src0.data[p][2], src0.data[p][4]>>
  /\ Done("color_rot") => AllStored

C4_Witness ==
  /\ Done("color_rot")
  /\ \E p \in DOMAIN output_img.data :
       /\ src0.data[p] = <<170, 187, 204, 221>>
       /\ output_img.data[p] = <<204, 170, 187, 221>>

\* C5: imgproc_color_rot applied three times, each time to the output of the time
\* before, gives back the image the caller started from.
C5_ColorRotThrice == (Done("color_rot") /\ rots = 2) => output_img = orig

C5_Witness ==
  /\ Done("color_rot") /\ rots = 2
  /\ output_img = orig
  /\ input_img # orig
  /\ orig.width * orig.height >= 4

\* C6: imgproc_blur with blur_dist = 0 into a destination of the source's dimensions
\* gives an output equal to the source in all four channels of every pixel.
C6_BlurZeroIsCopy == (Done("blur") /\ blur_dist = 0) => output_img = src0

C6_Witness ==
  /\ Done("blur") /\ blur_dist = 0
  /\ output_img = src0
  /\ src0.width >= 2 /\ src0.height >= 2
  /\ SrcAt(0, 0) # SrcAt(0, 1)
  /\ SrcAt(0, 0) # SrcAt(1, 0)

\* C7: every read of the source by imgproc_blur and imgproc_expand is at a (row, col)
\* with 0 <= row < height and 0 <= col < width, at the linear index row*width + col,
\* which is inside the buffer.
C7_ReadsInBounds ==
  op \in {"blur", "expand"} =>
    \A rd \in reads :
      /\ rd.row >= 0 /\ rd.row < src0.height
      /\ rd.col >= 0 /\ rd.col < src0.width
      /\ rd.index = rd.row * src0.width + rd.col
      /\ rd.index >= 0 /\ rd.index < src0.width * src0.height

C7_Witness ==
  /\ op = "blur" /\ blur_dist = 1
  /\ src0.width >= 3 /\ src0.height >= 3
  /\ acc.row = src0.height - 1 /\ acc.col = src0.width - 1
  /\ Cardinality(reads) = 4

\* The destination a single pass of the loops in their own order gives
RECURSIVE RunSeq(_, _, _)
RunSeq(n, out, a) ==
  IF n >= Iterations(op, src0, out) THEN out
  ELSE LET it == Iter(op, src0, out, xfac, yfac, blur_dist, n, a)
       IN  RunSeq(n + 1, [out EXCEPT !.data[it.pos] = it.pixel], it.acc)

SeqResult == RunSeq(0, NewImage(output_img.width, output_img.height), NoAcc)

\* C8: in each transform, with the pixel loop split among workers interleaved in any
\* order, no output index is stored to twice, the source is not modified, every stored
\* pixel is the one the sequential loop stores there, and at the end every index has
\* been stored to once and the destination is the sequential loop's destination.
C8_OrderIndependent ==
  op # "none" =>
    LET seq == SeqResult
    IN  /\ \A p \in DOMAIN writes : writes[p] <= 1
        /\ input_img = src0
        /\ \A p \in DOMAIN writes : writes[p] = 1 => output_img.data[p] = seq.data[p]
        /\ pc = "done" => ( /\ \A p \in DOMAIN output_img.data : writes[p] = 1
                            /\ output_img = seq )

\* worker 1 has stored its first pixel while worker 0 has stored none
C8_Witness ==
  /\ op = "blur" /\ blur_dist = 1 /\ pc = "running"
  /\ src0.width = 2 /\ src0.height = 2
  /\ writes[1] = 1 /\ writes[0] = 0
  /\ output_img.data[1] = SeqResult.data[1]
  /\ output_img.data[1] # src0.data[1]

\* C9: createAveragePixel and quadAveragePixel return the pixel whose red, green, blue
\* and alpha are each the truncated quotient of the sum of that channel of the inputs
\* by 2 and by 4, with no rounding up and no carry between channels.
C9_Averages ==
  /\ avg_out.fn = "createAveragePixel" =>
       avg_out.pixel = [ch \in 1 .. 4 |-> (avg_in[1][ch] + avg_in[2][ch]) \div 2]
  /\ avg_out.fn = "quadAveragePixel" =>
       avg_out.pixel =
         [ch \in 1 .. 4 |->
            (avg_in[1][ch] + avg_in[2][ch] + avg_in[3][ch] + avg_in[4][ch]) \div 4]

\* red 3 and red 4 average to red 3
C9_Witness ==
  /\ avg_out.fn = "createAveragePixel"
  /\ avg_in[1][1] = 3 /\ avg_in[2][1] = 4
  /\ avg_out.pixel[1] = 3
  /\ avg_in[1][2] = 255 /\ avg_in[2][2] = 254
  /\ avg_out.pixel[2] = 254

\* C10: in imgproc_blur the contributor count at the division of every output pixel
\* (row, col) is (min(row+blur_dist, height-1) - max(row-blur_dist, 0) + 1) *
\* (min(col+blur_dist, width-1) - max(col-blur_dist, 0) + 1), and is at least 1.
C10_BlurCount ==
  (op = "blur" /\ reads # {}) =>
    /\ acc.total =
         (Min(acc.row + blur_dist, src0.height - 1) - Max(acc.row - blur_dist, 0) + 1)
         * (Min(acc.col + blur_dist, src0.width - 1) - Max(acc.col - blur_dist, 0) + 1)
    /\ acc.total >= 1

\* the count at a corner of a 3 by 3 image with blur_dist = 1 is 4
C10_Witness ==
  /\ op = "blur" /\ blur_dist = 1 /\ reads # {}
  /\ src0.width = 3 /\ src0.height = 3
  /\ acc.row = 0 /\ acc.col = 0
  /\ acc.total = 4

====
